---- MODULE Spec2Model ----
(***************************************************************************)
(* Polynomial degree estimation of UFL expressions                         *)
(* (ufl/algorithms/estimate_degrees.py) together with the math function    *)
(* constructors of ufl/operators.py.                                       *)
(*                                                                         *)
(* An expression graph is an arena: a sequence of nodes, each node naming  *)
(* its operands by their positions earlier in the sequence, so that a node *)
(* referenced by two parents is one position referenced twice (a DAG).     *)
(***************************************************************************)
EXTENDS Integers, Sequences, FiniteSets, TLC

VARIABLES nodes, capacity, pending, call, de, outcome, result, visits

vars == <<nodes, capacity, pending, call, de, outcome, result, visits>>

-----------------------------------------------------------------------------
(* Bounds of the model *)

\* Largest number of nodes of an expression graph.
MaxNodes == 3

\* Largest number of integrals of a Form.
MaxIntegrals == 2

\* Call sequences: the longest sequence of calls a client makes, and the
\* largest graph it starts from.
MaxCalls == 2

MaxSeqNodes == 2

\* Python's None.  Python 2 orders None below every number, and no degree the
\* bounded model computes comes near this value.
None == -1000

\* The default_degree arguments the driving functions are called with.
DefaultDegrees == {0, 3}

-----------------------------------------------------------------------------
(* Node model *)

\* ScalarValue subclasses: literal numbers.
ScalarValueKinds == {"IntValue", "FloatValue"}

Node(kind, ops, degree, value, frac) ==
    [kind |-> kind, ops |-> ops, degree |-> degree, value |-> value,
     frac |-> frac]

\* A FloatValue is kept as its integer part (truncated toward zero) and
\* whether a fractional part follows: 0.5 is value 0, frac TRUE.
TerminalList ==
    <<Node("SpatialCoordinate", <<>>, None, 0, FALSE),
      Node("FormArgument", <<>>, None, 0, FALSE),
      Node("FormArgument", <<>>, 2, 0, FALSE),
      Node("MultiIndex", <<>>, None, 0, FALSE),
      Node("Zero", <<>>, None, 0, FALSE),
      Node("IntValue", <<>>, None, 2, FALSE),
      Node("IntValue", <<>>, None, -1, FALSE),
      Node("FloatValue", <<>>, None, 0, TRUE)>>

IsTerminal(n) == n.ops = <<>>

\* Positions of an arena that hold a value (not an index).
Values(a) == {i \in 1..Len(a) : a[i].kind # "MultiIndex"}

Indices(a) == {i \in 1..Len(a) : a[i].kind = "MultiIndex"}

Scalars(a) == {i \in 1..Len(a) : a[i].kind \in ScalarValueKinds}

\* Operands a symbolic math function node can have: the constructors fold
\* literals and zero away.
Symbolic(a) == {i \in Values(a) : a[i].kind \notin ScalarValueKinds \cup {"Zero"}}

\* The terminals that can be added to arena a.  The order of two terminals
\* added in a row does not matter to any operator built on them, so they come
\* in the order of TerminalList, at most two in a row.
Terminals(a) ==
    LET n == Len(a)
        from == IF n = 0 \/ ~IsTerminal(a[n]) THEN 1
                ELSE IF n >= 2 /\ IsTerminal(a[n - 1]) THEN Len(TerminalList) + 1
                ELSE CHOOSE k \in 1..Len(TerminalList) : TerminalList[k] = a[n]
    IN {TerminalList[k] : k \in from..Len(TerminalList)}

\* The operator nodes that can be built on top of arena a: expressions are
\* built bottom-up, each operator on the node built just before it.  Inner
\* and Product take their operands in either order.
Operators(a) ==
    LET n == Len(a)
        Pairs(S, T) == {p \in S \X T : p[1] = n \/ p[2] = n}
    IN {Node(k, <<p[1], p[2]>>, None, 0, FALSE) :
            k \in {"Inner", "Product"},
            p \in {q \in Pairs(Values(a), Values(a)) : q[1] <= q[2]}}
       \cup {Node(k, <<p[1], p[2]>>, None, 0, FALSE) :
            k \in {"Division", "Power"}, p \in Pairs(Values(a), Values(a))}
       \cup {Node("SpatialDerivative", <<p[1], p[2]>>, None, 0, FALSE) :
            p \in Pairs(Values(a), Indices(a))}
       \cup {Node("BesselFunction", <<p[1], p[2]>>, None, 0, FALSE) :
            p \in Pairs(Scalars(a), Values(a))}
       \cup {Node("MathFunction", <<f>>, None, 0, FALSE) :
            f \in Symbolic(a) \cap {n}}

RECURSIVE ArenasOfLen(_)
ArenasOfLen(n) ==
    IF n = 0 THEN {<<>>}
    ELSE UNION {{Append(a, nd) : nd \in Terminals(a) \cup Operators(a)} :
                   a \in ArenasOfLen(n - 1)}

Arenas(max) == UNION {ArenasOfLen(n) : n \in 1..max}

-----------------------------------------------------------------------------
(* Python helpers *)

\* max() of a non-empty list under Python 2's ordering (None is the least).
RECURSIVE PyMax(_)
PyMax(s) ==
    IF Len(s) = 1 THEN s[1]
    ELSE LET m == PyMax(Tail(s))
         IN IF s[1] = None THEN m
            ELSE IF m = None THEN s[1]
            ELSE IF s[1] >= m THEN s[1] ELSE m

\* sum() of a list of numbers.
RECURSIVE PySum(_)
PySum(s) == IF s = <<>> THEN 0 ELSE s[1] + PySum(Tail(s))

\* int(g) of an operand node g: a literal converts (a float is truncated
\* toward zero), any other node raises.
PyInt(g) ==
    IF g.kind \in ScalarValueKinds
    THEN [raised |-> FALSE, value |-> g.value]
    ELSE [raised |-> TRUE, value |-> 0]

\* The elements of s that satisfy "not op is None", in order.
RECURSIVE NotNone(_)
NotNone(s) ==
    IF s = <<>> THEN <<>>
    ELSE IF s[1] = None THEN NotNone(Tail(s))
    ELSE <<s[1]>> \o NotNone(Tail(s))

-----------------------------------------------------------------------------
(* SumDegreeEstimator *)

\* A variant that keeps one estimator for all calls.
SumDegreeEstimator_reused(default_degree) ==
    IF de.kind = "sum" THEN de
    ELSE [kind |-> "sum", default_degree |-> default_degree]

SumDegreeEstimator(default_degree) ==
    [kind |-> "sum", default_degree |-> default_degree]

Sum_terminal(self, v) == 0

Sum_spatial_coordinate(self, v) == 1

Sum_form_argument(self, v) ==
    LET d == v.degree IN IF d = None THEN self.default_degree ELSE d

Sum_expr(self, v, ops) == PyMax(ops)

Sum_spatial_derivative(self, v, f, i) == PyMax(<<f - 1, 0>>)

\* A variant that takes the generic rule for a product.
Sum_product_max(self, v, ops) == PyMax(ops)

Sum_product(self, v, ops) == PySum(ops)

Sum_division(self, v, ops) == PySum(ops)

Sum_power(self, v, a, b) ==
    LET g  == nodes[v.ops[2]]
        gi == PyInt(g)
    IN IF ~gi.raised THEN a * gi.value ELSE a * 2

\* A variant without the test for a constant operand.
Sum_math_function_flat(self, v, a) == a + 2

Sum_math_function(self, v, a) == IF a # 0 THEN a + 2 ELSE a

Sum_bessel_function(self, v, nu, x) == IF x # 0 THEN x + 2 ELSE x

-----------------------------------------------------------------------------
(* MaxDegreeEstimator *)

MaxDegreeEstimator(default_degree) ==
    [kind |-> "max", default_degree |-> default_degree]

Max_terminal(self, v) == 0

Max_expr(self, v, ops) == PyMax(ops)

Max_form_argument(self, v) == v.degree

\* A variant that uses the default only when no operand has a degree.
Max_product_fallback(self, v, ops) ==
    LET degrees == NotNone(ops)
    IN IF degrees = <<>> THEN self.default_degree ELSE PyMax(degrees)

Max_product(self, v, ops) ==
    LET degrees == NotNone(ops)
    IN PyMax(degrees \o <<self.default_degree>>)

-----------------------------------------------------------------------------
(* Traversal engine (Transformer) *)

\* The rule applied to node v given its operands' results: the rule of the
\* node's own kind, else "terminal" for a node without operands, else "expr".
Handler(self, v, r) ==
    IF self.kind = "sum"
    THEN CASE v.kind = "SpatialCoordinate" -> Sum_spatial_coordinate(self, v)
           [] v.kind = "FormArgument"      -> Sum_form_argument(self, v)
           [] v.kind = "SpatialDerivative" -> Sum_spatial_derivative(self, v, r[1], r[2])
           [] v.kind = "Product"           -> Sum_product(self, v, r)
           [] v.kind = "Division"          -> Sum_division(self, v, r)
           [] v.kind = "Power"             -> Sum_power(self, v, r[1], r[2])
           [] v.kind = "MathFunction"      -> Sum_math_function(self, v, r[1])
           [] v.kind = "BesselFunction"    -> Sum_bessel_function(self, v, r[1], r[2])
           [] OTHER -> IF v.ops = <<>> THEN Sum_terminal(self, v)
                       ELSE Sum_expr(self, v, r)
    ELSE CASE v.kind = "FormArgument"      -> Max_form_argument(self, v)
           [] v.kind = "Product"           -> Max_product(self, v, r)
           [] OTHER -> IF v.ops = <<>> THEN Max_terminal(self, v)
                       ELSE Max_expr(self, v, r)

\* A variant that never finds a result.
Cached_never(cache, o) == FALSE

\* Whether node o already has a result in the cache of this evaluation.
Cached(cache, o) == o \in DOMAIN cache

\* visit(o): st is the evaluation's state, the cache (node -> result) and the
\* number of rule invocations so far.  Operands are visited first, in order.
RECURSIVE visit(_, _, _), visit_operands(_, _, _)
visit(self, o, st) ==
    IF Cached(st.cache, o)
    THEN [r |-> st.cache[o], st |-> st]
    ELSE LET v   == nodes[o]
             sub == visit_operands(self, v.ops, st)
             r   == Handler(self, v, sub.r)
         IN [r  |-> r,
             st |-> [cache |-> (o :> r) @@ sub.st.cache,
                     invoked |-> sub.st.invoked + 1]]

visit_operands(self, ops, st) ==
    IF ops = <<>> THEN [r |-> <<>>, st |-> st]
    ELSE LET first == visit(self, ops[1], st)
             rest  == visit_operands(self, Tail(ops), first.st)
         IN [r |-> <<first.r>> \o rest.r, st |-> rest.st]

\* One evaluation of a root: a cache of its own.
evaluate(self, root) ==
    LET e == visit(self, root, [cache |-> <<>>, invoked |-> 0])
    IN [r |-> e.r, invoked |-> e.st.invoked]

-----------------------------------------------------------------------------
(* Driving functions *)

\* What a call may be given: a Form (its integrals' integrands, in order), an
\* Integral (its integrand) or an expression (its root node).
Form(integrands) == [type |-> "Form", roots |-> integrands]

Integral(integrand) == [type |-> "Integral", roots |-> <<integrand>>]

Expr(root) == [type |-> "Expr", roots |-> <<root>>]

NoIntegrals == "Got form with no integrals!"

\* A variant that checks nothing.
ufl_assert_off(condition, message) == ""

\* ufl_assert(condition, message): the error raised, "" when none is.
ufl_assert(condition, message) == IF condition THEN "" ELSE message

\* [de.visit(root) for root in roots], each with the rule invocations it made.
VisitAll(self, roots) == [i \in 1..Len(roots) |-> evaluate(self, roots[i])]

\* max() of an empty list raises.
EmptyMax == "ValueError: max() arg is an empty sequence"

\* A variant that returns the first integral's degree.
Reduce_first(degrees) == degrees[1]

\* return max(degrees)
Reduce(degrees) == PyMax(degrees)

\* The outcome of a driving function that built estimator self for target e.
Drive(self, e) ==
    LET raised == IF e.type = "Form"
                  THEN ufl_assert(e.roots # <<>>, NoIntegrals)
                  ELSE ""
        done == VisitAll(self, e.roots)
        degrees == [i \in 1..Len(done) |-> done[i].r]
        visited == [i \in 1..Len(done) |-> done[i].invoked]
    IN IF raised # ""
       THEN [outcome |-> raised, result |-> <<>>, visits |-> <<>>]
       ELSE IF degrees = <<>>
       THEN [outcome |-> EmptyMax, result |-> <<>>, visits |-> visited]
       ELSE [outcome |-> "return", result |-> <<Reduce(degrees)>>,
             visits |-> visited]

estimate_max_polynomial_degree(e, default_degree) ==
    LET self == MaxDegreeEstimator(default_degree)
    IN [self |-> self, out |-> Drive(self, e)]

estimate_total_polynomial_degree(e, default_degree) ==
    LET self == SumDegreeEstimator(default_degree)
    IN [self |-> self, out |-> Drive(self, e)]

-----------------------------------------------------------------------------
(* Math function constructors *)

\* as_ufl(x) of the float x that fun returned: a literal.  The model keeps
\* a float's integer part and whether a fraction follows, from which the
\* value of sqrt, exp, ln, cos or sin cannot be computed: y ranges over the
\* floats these functions return on the literals of the model.
FunValues == {[value |-> 0, frac |-> FALSE], [value |-> 1, frac |-> FALSE],
              [value |-> 0, frac |-> TRUE], [value |-> 1, frac |-> TRUE]}

as_ufl(y) == Node("FloatValue", <<>>, None, y.value, y.frac)

\* _mathfunction(f, cls, fun): the node returned for operand position f, where
\* y is fun's value on a literal operand.
mathfunction(f, y) ==
    LET n == nodes[f]
    IN IF n.kind \in ScalarValueKinds THEN as_ufl(y)
       ELSE IF n.kind = "Zero" THEN as_ufl(y)
       ELSE Node("MathFunction", <<f>>, None, 0, FALSE)

-----------------------------------------------------------------------------
(* State machine *)

Idle == [fn |-> "none", e |-> Expr(0), default_degree |-> 0]

\* The objects a caller can pass: any expression, the integral of any
\* expression, and the forms over the most recently built expressions.
Targets ==
    {Expr(i) : i \in 1..Len(nodes)}
    \cup {Integral(i) : i \in 1..Len(nodes)}
    \cup {Form([j \in 1..k |-> Len(nodes) + 1 - j]) :
            k \in 0..(IF Len(nodes) < MaxIntegrals THEN Len(nodes) ELSE MaxIntegrals)}

Built ==
    /\ call = Idle
    /\ de = [kind |-> "none", default_degree |-> 0]
    /\ outcome = "idle"
    /\ result = <<>>
    /\ visits = <<>>

\* One call on a constructed graph.
Init ==
    /\ nodes \in Arenas(MaxNodes)
    /\ capacity = MaxNodes
    /\ pending = 1
    /\ Built

\* A sequence of calls, on a graph that may grow between them.
InitSeq ==
    /\ nodes \in Arenas(MaxSeqNodes)
    /\ capacity = MaxSeqNodes
    /\ pending = MaxCalls
    /\ Built

Returns(fn, e, d, ret) ==
    /\ pending > 0
    /\ pending' = pending - 1
    /\ call' = [fn |-> fn, e |-> e, default_degree |-> d]
    /\ de' = ret.self
    /\ outcome' = ret.out.outcome
    /\ result' = ret.out.result
    /\ visits' = ret.out.visits
    /\ UNCHANGED <<nodes, capacity>>

EstimateTotal ==
    \E e \in Targets, d \in DefaultDegrees :
        Returns("total", e, d, estimate_total_polynomial_degree(e, d))

EstimateMax ==
    \E e \in Targets, d \in DefaultDegrees :
        Returns("max", e, d, estimate_max_polynomial_degree(e, d))

\* sqrt(f), exp(f), ln(f), cos(f), sin(f) on a value of the graph.
\* When fun raises (sqrt of a negative literal) nothing is built.
MathFunction ==
    /\ Len(nodes) < capacity
    /\ \E f \in Values(nodes), y \in FunValues :
        nodes' = Append(nodes, mathfunction(f, y))
    /\ UNCHANGED <<capacity, pending, call, de, outcome, result, visits>>

Next == EstimateTotal \/ EstimateMax \/ MathFunction

Spec == Init /\ [][Next]_vars

SpecSeq == InitSeq /\ [][Next]_vars

-----------------------------------------------------------------------------
(* Properties *)

Returned == outcome = "return"

\* The last call was fn on the bare expression whose root is of the kind.
CalledOn(fn, kind) ==
    /\ Returned
    /\ call.fn = fn
    /\ call.e.type = "Expr"
    /\ nodes[call.e.roots[1]].kind = kind

Root == nodes[call.e.roots[1]]

\* estimate_total_polynomial_degree and estimate_max_polynomial_degree of the
\* expression at position o, as calls of their own.
Total(o, d) == estimate_total_polynomial_degree(Expr(o), d).out.result[1]

Max(o, d) == estimate_max_polynomial_degree(Expr(o), d).out.result[1]

\* An estimator of the call's rule set that carries the call's own default.
Own ==
    [kind |-> IF call.fn = "total" THEN "sum" ELSE "max",
     default_degree |-> call.default_degree]

\* The nodes reachable from o, o included.
RECURSIVE Reach(_)
Reach(o) == {o} \cup UNION {Reach(nodes[o].ops[i]) : i \in 1..Len(nodes[o].ops)}

\* C1: a driving function returns the maximum, over the integrals of a form,
\* of the value of each integrand evaluated alone with the same rule set and
\* default degree; for one integral or a bare expression, the value of that
\* one integrand or expression.
C1_MaxOverIntegrals ==
    Returned =>
        LET alone == {evaluate(Own, call.e.roots[i]).r : i \in 1..Len(call.e.roots)}
        IN /\ result[1] \in alone
           /\ \A x \in alone : x = None \/ (result[1] # None /\ x <= result[1])
           /\ call.e.type # "Form" => result[1] = evaluate(Own, call.e.roots[1]).r

\* A form of two integrals whose first integrand has the larger degree.
C1_Witness ==
    /\ Returned
    /\ call.e.type = "Form"
    /\ Len(call.e.roots) = 2
    /\ evaluate(Own, call.e.roots[1]).r # None
    /\ evaluate(Own, call.e.roots[2]).r # None
    /\ evaluate(Own, call.e.roots[2]).r > evaluate(Own, call.e.roots[1]).r
    /\ result[1] = evaluate(Own, call.e.roots[2]).r

\* C2: a call with a form of no integrals ends in the error "form has no
\* integrals", before any integrand is evaluated and without a degree value.
C2_NoIntegralsRaises ==
    (call.fn # "none" /\ call.e.type = "Form" /\ call.e.roots = <<>>) =>
        /\ outcome = NoIntegrals
        /\ result = <<>>
        /\ visits = <<>>

C2_Witness ==
    /\ call.fn = "max"
    /\ call.e = Form(<<>>)
    /\ outcome = NoIntegrals

\* C3: under the sum estimator the degree of a product a*b is the degree of a
\* plus the degree of b, also when a and b are one node or share nodes.
C3_ProductIsSum ==
    CalledOn("total", "Product") =>
        result[1] = Total(Root.ops[1], call.default_degree)
                    + Total(Root.ops[2], call.default_degree)

\* A product whose first operand is a proper sub-expression of its second.
C3_Witness ==
    /\ CalledOn("total", "Product")
    /\ Root.ops[1] # Root.ops[2]
    /\ Root.ops[1] \in Reach(Root.ops[2])
    /\ Total(Root.ops[1], call.default_degree) > 0
    /\ result[1] > Total(Root.ops[2], call.default_degree)

\* C4: under the sum estimator a power with a literal integer exponent k has
\* degree(base) * k, and a power with the exponent 0.5 has 2 * degree(base).
C4_PowerLiteralExponent ==
    CalledOn("total", "Power") =>
        LET g == nodes[Root.ops[2]]
            a == Total(Root.ops[1], call.default_degree)
        IN /\ g.kind = "IntValue" => result[1] = a * g.value
           /\ (g.kind = "FloatValue" /\ g.value = 0 /\ g.frac) => result[1] = 2 * a

\* C5: in one evaluation every node reachable from the root has its rule
\* invoked exactly once, however many parents reference it.
C5_EachNodeOnce ==
    Returned =>
        \A i \in 1..Len(call.e.roots) :
            visits[i] = Cardinality(Reach(call.e.roots[i]))

\* An evaluation of a root under which two distinct parents share a node.
C5_Witness ==
    /\ Returned
    /\ Len(visits) = 1
    /\ \E p \in Reach(call.e.roots[1]), q \in Reach(call.e.roots[1]) :
          /\ p # q
          /\ \E i \in 1..Len(nodes[p].ops), j \in 1..Len(nodes[q].ops) :
                nodes[p].ops[i] = nodes[q].ops[j]

\* C6: estimate_max_polynomial_degree never returns None: a form argument
\* whose element has no degree counts with the default degree.
C6_MaxNeverNone ==
    (Returned /\ call.fn = "max") => result[1] # None

\* C7: under the sum estimator a math function node, whose operand is
\* symbolic, has degree 0 when its operand has degree 0 and d + 2 when its
\* operand has degree d > 0.
C7_MathFunction ==
    /\ \A i \in 1..Len(nodes) :
          nodes[i].kind = "MathFunction" => nodes[i].ops[1] \in Symbolic(nodes)
    /\ CalledOn("total", "MathFunction") =>
          LET a == Total(Root.ops[1], call.default_degree)
          IN /\ a = 0 => result[1] = 0
             /\ a > 0 => result[1] = a + 2

\* A math function of a form argument of degree 0.
C7_Witness ==
    /\ CalledOn("total", "MathFunction")
    /\ nodes[Root.ops[1]].kind = "FormArgument"
    /\ Total(Root.ops[1], call.default_degree) = 0
    /\ result[1] = 0

C9_TotalNonNegative ==
    (Returned /\ call.fn = "total") => result[1] >= 0

\* C10: under the max estimator a product has the maximum of its operands'
\* present degrees and the default degree: never None, never below the
\* default.
C10_MaxProduct ==
    CalledOn("max", "Product") =>
        LET d == call.default_degree
            present == {Max(Root.ops[i], d) : i \in 1..Len(Root.ops)} \ {None}
        IN /\ result[1] # None
           /\ result[1] >= d
           /\ result[1] \in present \cup {d}
           /\ \A x \in present : x <= result[1]

\* A product whose operands all have a degree, below the default.
C10_Witness ==
    /\ CalledOn("max", "Product")
    /\ \A i \in 1..Len(Root.ops) :
          /\ Max(Root.ops[i], call.default_degree) # None
          /\ Max(Root.ops[i], call.default_degree) > 0
          /\ Max(Root.ops[i], call.default_degree) < call.default_degree
    /\ result[1] = call.default_degree

====
